---- MODULE Spec2Model ----
(***************************************************************************)
(* Model of caption_images.py: the batch driver process_images with its    *)
(* retry / escalation loop, the rename collision search, the error log,    *)
(* and the pure text functions it uses (sanitize_filename, the clean-up of *)
(* generate_filename, is_macos_screenshot_filename).                       *)
(*                                                                         *)
(* Text is a sequence of one-character strings.  File names are text.      *)
(* A directory is a function from file names to file contents.             *)
(***************************************************************************)
EXTENDS Integers, Sequences, FiniteSets, TLC

(***************************************************************************)
(* Characters.                                                             *)
(***************************************************************************)

\* The printable ASCII characters in code point order (32 .. 126).  The grave
\* accent (96) cannot be written in a TLA+ string and is spelled "grave".
Ascii ==
  << " ", "!", "\"", "#", "$", "%", "&", "'", "(", ")", "*", "+", ",", "-", ".", "/",
     "0", "1", "2", "3", "4", "5", "6", "7", "8", "9", ":", ";", "<", "=", ">", "?",
     "@", "A", "B", "C", "D", "E", "F", "G", "H", "I", "J", "K", "L", "M", "N", "O",
     "P", "Q", "R", "S", "T", "U", "V", "W", "X", "Y", "Z", "[", "\\", "]", "^", "_",
     "grave", "a", "b", "c", "d", "e", "f", "g", "h", "i", "j", "k", "l", "m", "n", "o",
     "p", "q", "r", "s", "t", "u", "v", "w", "x", "y", "z", "{", "|", "}", "~" >>

\* Code point of every character of the model (tab and newline included).
CodePoint ==
  [c \in {Ascii[k] : k \in 1..Len(Ascii)} \cup {"\t", "\n"} |->
     IF c = "\t" THEN 9
     ELSE IF c = "\n" THEN 10
     ELSE 31 + (CHOOSE k \in 1..Len(Ascii) : Ascii[k] = c)]

\* An assignment followed by its use: F of the value of v, v being evaluated
\* once.
At(v, F(_)) == CHOOSE r \in {F(x) : x \in {v}} : TRUE

\* str.lower() on one character.
LowerChar ==
  [c \in DOMAIN CodePoint |->
     IF CodePoint[c] >= 65 /\ CodePoint[c] <= 90 THEN Ascii[CodePoint[c] + 1] ELSE c]

\* str.lower()
Lower(s) ==
  LET EachLower(text) == [k \in 1..Len(text) |-> LowerChar[text[k]]]
  IN  At(s, EachLower)

\* \s of the re module
IsSpace(c) == c \in {" ", "\t", "\n"}

\* \d of the re module
IsDigit(c) == CodePoint[c] >= 48 /\ CodePoint[c] <= 57

\* \w of the re module
IsWord(c) ==
  \/ IsDigit(c)
  \/ CodePoint[c] >= 65 /\ CodePoint[c] <= 90
  \/ CodePoint[c] >= 97 /\ CodePoint[c] <= 122
  \/ c = "_"

\* str.strip(chars): drop the leading and trailing characters that are in chars.
Strip(s, chars) ==
  LET Between(keep) ==
        IF keep = {} THEN << >>
        ELSE LET lo == CHOOSE k \in keep : \A m \in keep : k <= m
                 hi == CHOOSE k \in keep : \A m \in keep : k >= m
             IN  SubSeq(s, lo, hi)
  IN  At({k \in 1..Len(s) : s[k] \notin chars}, Between)

\* re.sub(r'[cls]+', '-', s): every maximal run of characters of cls becomes
\* one hyphen.  A run's first character is replaced, the others are dropped.
CollapseRuns(s, cls) ==
  LET drop   == "drop"
      marked == [k \in 1..Len(s) |->
                   IF s[k] \in cls
                   THEN IF k = 1 \/ s[k-1] \notin cls THEN "-" ELSE drop
                   ELSE s[k]]
      kept(c) == c # drop
  IN  SelectSeq(marked, kept)

\* str(n) for a natural number n.
RECURSIVE Decimal(_)
Decimal(n) ==
  IF n < 10 THEN << Ascii[17 + n] >>
  ELSE Append(Decimal(n \div 10), Ascii[17 + (n % 10)])

\* Python's ordering of two strings: by code point, a proper prefix first.
StrLess(a, b) ==
  LET diff == {k \in 1..Len(a) : k > Len(b) \/ a[k] # b[k]}
  IN  IF diff = {} THEN Len(a) < Len(b)
      ELSE LET k == CHOOSE m \in diff : \A n \in diff : m <= n
           IN  k <= Len(b) /\ CodePoint[a[k]] < CodePoint[b[k]]

(***************************************************************************)
(* sanitize_filename                                                       *)
(***************************************************************************)

\* The length limit of a sanitized name.
SanitizeLimit == 200

\* The characters sanitize_filename replaces by a hyphen.
InvalidChars == {"<", ">", ":", "\"", "/", "\\", "|", "?", "*"}

\* The four assignments to filename, each applied to the value of the one
\* before.
sanitize_filename(filename) ==
  LET Replace(name)   == [k \in 1..Len(name) |->
                            IF name[k] \in InvalidChars THEN "-" ELSE name[k]]
      Collapse(name)  == CollapseRuns(name, {" ", "\t", "\n", "-"})
      StripDots(name) == Strip(name, {".", " "})
      Truncate(name)  == IF Len(name) > SanitizeLimit
                         THEN SubSeq(name, 1, SanitizeLimit)
                         ELSE name
  IN  At(At(At(At(filename, Replace), Collapse), StripDots), Truncate)

(***************************************************************************)
(* Paths: pathlib's name, suffix, stem and with_suffix.                    *)
(***************************************************************************)

\* Index of the dot that starts the suffix, 0 when the name has no suffix
\* (no dot, or only a leading or a trailing one).
SuffixStart(name) ==
  LET dots == {k \in 1..Len(name) : name[k] = "."}
  IN  IF dots = {} THEN 0
      ELSE LET d == CHOOSE k \in dots : \A m \in dots : k >= m
           IN  IF 1 < d /\ d < Len(name) THEN d ELSE 0

\* Path.suffix
Suffix(name) ==
  IF SuffixStart(name) = 0 THEN << >>
  ELSE SubSeq(name, SuffixStart(name), Len(name))

\* Path.stem
Stem(name) ==
  IF SuffixStart(name) = 0 THEN name
  ELSE SubSeq(name, 1, SuffixStart(name) - 1)

\* Path.with_suffix('.txt').name
TxtName(name) == Stem(name) \o << ".", "t", "x", "t" >>

(***************************************************************************)
(* The filename classifier.                                                *)
(***************************************************************************)

\* The pattern of is_macos_screenshot_filename, one element per character
\* matched: "\\d" stands for a digit, any other element for that literal
\* character, compared without regard to letter case (the (?i) flag covers
\* the whole pattern).
ScreenshotPattern ==
  << "s", "c", "r", "e", "e", "n", "s", "h", "o", "t", " ",
     "\\d", "\\d", "\\d", "\\d", "-", "\\d", "\\d", "-", "\\d", "\\d",
     " ", "a", "t", " ",
     "\\d", "\\d", ".", "\\d", "\\d", ".", "\\d", "\\d" >>

\* re.match anchors at the start only: text after the time is accepted.
is_macos_screenshot_filename(filename) ==
  /\ Len(filename) >= Len(ScreenshotPattern)
  /\ \A k \in 1..Len(ScreenshotPattern) :
       IF ScreenshotPattern[k] = "\\d"
       THEN IsDigit(filename[k])
       ELSE LowerChar[filename[k]] = ScreenshotPattern[k]

image_extensions ==
  { << ".", "j", "p", "g" >>, << ".", "j", "p", "e", "g" >>, << ".", "p", "n", "g" >>,
    << ".", "g", "i", "f" >>, << ".", "w", "e", "b", "p" >>, << ".", "b", "m", "p" >>,
    << ".", "t", "i", "f", "f" >>, << ".", "t", "i", "f" >> }

\* sorted(): the names of a finite set in ascending order.
RECURSIVE Sorted(_)
Sorted(names) ==
  IF names = {} THEN << >>
  ELSE LET least == CHOOSE n \in names : \A m \in names \ {n} : StrLess(n, m)
       IN  << least >> \o Sorted(names \ {least})

\* Faulty variant of get_image_files: the list is not sorted, the files come
\* in another order.
get_image_files_unsorted(names) ==
  LET ordered == Sorted({n \in names :
                           /\ Lower(Suffix(n)) \in image_extensions
                           /\ is_macos_screenshot_filename(Stem(n))})
  IN  [k \in 1..Len(ordered) |-> ordered[Len(ordered) + 1 - k]]

\* get_image_files over the regular files `names` of the directory.
get_image_files(names) ==
  Sorted({n \in names :
            /\ Lower(Suffix(n)) \in image_extensions
            /\ is_macos_screenshot_filename(Stem(n))})

(***************************************************************************)
(* The inference gateway's treatment of the service's response text.       *)
(***************************************************************************)

Whitespace == {" ", "\t", "\n"}

\* caption_image: the response text, stripped.
caption_image(content) == Strip(content, Whitespace)

\* generate_filename: the response text, stripped and cleaned.
generate_filename(content) ==
  LET StripSpace(name)  == Strip(name, Whitespace)
      Unquote(name)     == Strip(name, {"\"", "'"})
      Replace(name)     == [k \in 1..Len(name) |->
                              IF IsWord(name[k]) \/ name[k] = "-"
                              THEN name[k] ELSE "-"]
      Single(name)      == CollapseRuns(name, {"-"})
      Trim(name)        == Strip(name, {"-"})
      OrUntitled(name)  == IF name = << >>
                           THEN << "u", "n", "t", "i", "t", "l", "e", "d" >>
                           ELSE name
  IN  At(At(At(At(At(At(content, StripSpace), Unquote), Replace), Single), Trim),
         OrUntitled)

(***************************************************************************)
(* The directory and the error log.                                        *)
(***************************************************************************)

\* Two names denote the same path: always when they are equal, and on a
\* case-insensitive filesystem when they are equal up to letter case.
SamePath(ci, a, b) == a = b \/ (ci /\ Lower(a) = Lower(b))

\* The names of the files, lower-cased.
LowerNames(files) == {Lower(f) : f \in files}

\* Path.exists() over the regular files `files` of the directory; `lowered`
\* is LowerNames(files).
Exists(ci, files, lowered, p) == p \in files \/ (ci /\ Lower(p) \in lowered)

\* Path.rename (os.rename): the entry src becomes dst; an entry already at the
\* destination path is replaced.
Rename(ci, d, src, dst) ==
  LET replaced == {n \in DOMAIN d : SamePath(ci, n, dst)} \ {src}
      names    == ((DOMAIN d \ {src}) \ replaced) \cup {dst}
  IN  [n \in names |-> IF n = dst THEN d[src] ELSE d[n]]

\* open(path, 'w') and write: the file at that path gets the text, and is
\* created when there is none.
WriteText(ci, d, name, text) ==
  LET Write(path) ==
        IF \E n \in DOMAIN d : SamePath(ci, n, path)
        THEN LET at == CHOOSE n \in DOMAIN d : SamePath(ci, n, path)
             IN  [d EXCEPT ![at] = text]
        ELSE [n \in DOMAIN d \cup {path} |-> IF n = path THEN text ELSE d[n]]
  IN  At(name, Write)

\* error_log.txt
ErrorLogName == << "e", "r", "r", "o", "r", "_", "l", "o", "g", ".", "t", "x", "t" >>

\* The error log file when it does not exist.
NoLog == [exists |-> FALSE, lines |-> << >>]

\* log_error: append one line to the log, creating the file.  The timestamp
\* is the clock of the model, which advances once per run.
log_error(log, now, image_name, error_message) ==
  [exists |-> TRUE,
   lines  |-> Append(log.lines,
                [timestamp |-> now, file |-> image_name, message |-> error_message])]

\* The regular files of the directory, the error log included.
Files(d, log) == DOMAIN d \cup (IF log.exists THEN {ErrorLogName} ELSE {})

(***************************************************************************)
(* Error messages, as the sequence of their parts.                         *)
(***************************************************************************)

\* str(e) of the exception the gateway raises for a failure with this cause.
GatewayError(cause) == << "Ollama API error: ", cause >>

SkipMessage(last_error) ==
  << "Skipped by user after 3 failed attempts. Last error: " >> \o last_error

EmptyNameMessage == << "Generated filename is empty after sanitization" >>

GiveUpMessage(attempts) ==
  << "Could not find available filename after " >> \o attempts \o << " attempts" >>

RenameFailedMessage(cause) == << "Failed to rename file: ", cause >>

(***************************************************************************)
(* The rename collision search.                                            *)
(***************************************************************************)

\* Faulty variant of max_retries: a cycle of two attempts.
max_retries_two == 3 - 1

max_retries == 3

max_attempts == 1000

\* The k-th candidate: base.ext for k = 0, base-k.ext after that.
Candidate(sanitized_name, suffix, k) ==
  IF k = 0 THEN sanitized_name \o suffix
  ELSE sanitized_name \o << "-" >> \o Decimal(k) \o suffix

\* Faulty variant of Conflict: no candidate is ever found in conflict.
Conflict_never(ci, files, lowered, image_name, new_path) == FALSE

\* Faulty variant of Conflict: only the exact path is tested, the listing of
\* the directory is not compared without regard to letter case.
Conflict_exact_only(ci, files, lowered, image_name, new_path) ==
  Exists(ci, files, lowered, new_path) /\ new_path # image_name

\* The test the loop applies to a candidate.  A candidate that exists is in
\* conflict unless it is the file being renamed (no symbolic links: two paths
\* resolve to the same file only when they are the same path); one that does
\* not exist is in conflict when a file of the directory has its name up to
\* letter case.  `lowered` is the listing existing_files of the code.
Conflict(ci, files, lowered, image_name, new_path) ==
  IF Exists(ci, files, lowered, new_path)
  THEN new_path # image_name
  ELSE Lower(new_path) \in lowered

\* The while loop of the collision search: the values of counter and new_path
\* when it ends.  The loop starts with counter = 1 and candidate 0; an
\* iteration that finds the candidate in conflict moves to the next candidate
\* and adds one to counter, one that finds it free ends the loop by break; the
\* loop is entered only while counter <= max_attempts.  So the loop ends after
\* `moves` conflicts, where the candidates 0 .. moves - 1 were tested and found
\* in conflict and either candidate `moves` was tested and found free, or
\* moves = max_attempts and that candidate was never tested.
CollisionSearch(ci, files, image_name, sanitized_name) ==
  LET WithSuffix(suffix) ==
        LET WithListing(lowered) ==
              LET Cand(k) == Candidate(sanitized_name, suffix, k)
                  Test(new_path) == Conflict(ci, files, lowered, image_name, new_path)
                  Bad(k)  == At(Cand(k), Test)
                  Result(moves) == [counter |-> moves + 1, new_path |-> Cand(moves)]
              IN  At(CHOOSE k \in 0..max_attempts :
                       /\ k = max_attempts \/ ~Bad(k)
                       /\ \A j \in 0..(k - 1) : Bad(j),
                     Result)
        IN  At(LowerNames(files), WithListing)
  IN  At(Suffix(image_name), WithSuffix)

(***************************************************************************)
(* The inputs of the model.                                                *)
(***************************************************************************)

\* How many times the operator may choose retry for one file.
MaxRetryChoices == 1

\* How many invalid answers the operator may give at one prompt.
MaxInvalidInputs == 1

\* How many times the batch is run on the directory.
MaxRuns == 2

\* The causes of a failed gateway call.
Causes == {"connection refused", "timeout"}

\* The date and time of a screenshot name, with the last digit of the seconds.
DateAndTime(second) ==
  << " ", "2", "0", "2", "5", "-", "1", "1", "-", "1", "6", " " >>
    \o << "a", "t", " ", "1", "8", ".", "2", "3", ".", "4", second >>

\* The response texts of the inference service; the last is the stem of ShotA.
RawResponses ==
  { << "p", "h", "o", "t", "o" >>,
    << "\"", "P", "h", "o", "t", "o", "\"", "\n" >>,
    << "S", "c", "r", "e", "e", "n", "s", "h", "o", "t" >> \o DateAndTime("7") }

\* What the operator may type at the prompt; "eof" is end of input or Ctrl-C.
PromptInputs == {"1", "2", "3", "x", "eof"}

\* Screenshot 2025-11-16 at 18.23.47.png
ShotA ==
  << "S", "c", "r", "e", "e", "n", "s", "h", "o", "t" >> \o DateAndTime("7")
    \o << ".", "p", "n", "g" >>

\* screenshot 2025-11-16 at 18.23.48.PNG
ShotB ==
  << "s", "c", "r", "e", "e", "n", "s", "h", "o", "t" >> \o DateAndTime("8")
    \o << ".", "P", "N", "G" >>

\* Screenshot 2025-11-16 at 18.23.47.jpg: the stem of ShotA, another extension.
ShotC ==
  << "S", "c", "r", "e", "e", "n", "s", "h", "o", "t" >> \o DateAndTime("7")
    \o << ".", "j", "p", "g" >>

\* notes.txt
Notes == << "n", "o", "t", "e", "s", ".", "t", "x", "t" >>

\* photo.png, photo-1.png, ..., the first n of them.
Taken(n) ==
  {Candidate(<< "p", "h", "o", "t", "o" >>, << ".", "p", "n", "g" >>, k) : k \in 0..(n - 1)}

\* The sets of other files in a small directory.
OtherSets == {{Notes} \cup Taken(2)}

\* The sets of other files in a directory that nearly exhausts the collision
\* search: the first free candidate is the last but one, or the last.
CrowdedSets == {Taken(max_attempts - 1), Taken(max_attempts)}

\* Every file of an initial directory holds its own bytes.
Bytes(name) == << "bytes of " >> \o name

Directory(names) == [n \in names |-> Bytes(n)]

\* The directories a first run may find: two screenshots among a few other
\* files, or one screenshot in a crowded directory.
SmallDirs == {Directory({ShotA, ShotB} \cup others) : others \in OtherSets}

CrowdedDirs == {Directory({ShotA} \cup others) : others \in CrowdedSets}

\* A directory with two images of one stem.
TwinDirs == {Directory({ShotA, ShotC, Notes})}

(***************************************************************************)
(* The state of a run of process_images.                                   *)
(***************************************************************************)

VARIABLES
  mode,                 \* "caption" or "name"
  case_insensitive_fs,  \* whether the filesystem ignores letter case
  dir,                  \* the image directory: file name -> content
  error_log,            \* error_log.txt: [exists, lines]
  clock,                \* the number of runs started so far
  unlinked,             \* history: whether this run found and removed an old log
  pc,                   \* where the process is
  image_files,          \* the queue get_image_files returned
  i,                    \* how many files of the queue were begun
  attempt,              \* the attempt of the cycle the next gateway call makes
  result,               \* [some, text]: the gateway's result, if any
  last_error,           \* str(last_error); << >> when None
  error_logged,
  outcomes,             \* history: the gateway calls made for the current file,
                        \*   TRUE for one that returned, FALSE for one that raised
  returned,             \* history: what the latest gateway call returned or raised
  choices,              \* history: the choices the prompt returned for it
  invalid_inputs,       \* the invalid answers given so far at the prompt shown
  answered,             \* history: the latest answer typed at a prompt for it
  fate,                 \* history: how each file of this run ended
  filename,             \* the argument of sanitize_filename under study
  sanitized             \* the results of applying it once, twice

vars ==
  << mode, case_insensitive_fs, dir, error_log, clock, unlinked, pc, image_files, i, attempt,
     result, last_error, error_logged, outcomes, returned, choices, invalid_inputs,
     answered, fate, filename, sanitized >>

None == [some |-> FALSE, text |-> << >>]

NoCall == [ok |-> FALSE, error |-> << >>, text |-> << >>]

NoError == << >>

\* The positions at which a run has ended.
Ended == {"no_images", "complete", "aborted", "interrupted"}

\* The file being processed.
image_path == image_files[i]

Init ==
  /\ mode \in {"caption", "name"}
  /\ case_insensitive_fs \in BOOLEAN
  /\ dir \in SmallDirs
              \cup (IF mode = "name" /\ ~case_insensitive_fs THEN CrowdedDirs ELSE {})
              \cup (IF mode = "caption" /\ ~case_insensitive_fs THEN TwinDirs ELSE {})
  /\ error_log = NoLog
  /\ clock = 0
  /\ unlinked = FALSE
  /\ pc = "not_started"
  /\ image_files = << >>
  /\ i = 0
  /\ attempt = 1
  /\ result = None
  /\ last_error = NoError
  /\ error_logged = FALSE
  /\ outcomes = << >>
  /\ returned = NoCall
  /\ choices = << >>
  /\ invalid_inputs = 0
  /\ answered = ""
  /\ fate = << >>
  /\ filename = << >>
  /\ sanitized = << >>

\* The top of the loop over the queue: the k-th file is begun.
BeginFile(k) ==
  /\ i' = k
  /\ attempt' = 1
  /\ result' = None
  /\ last_error' = NoError
  /\ error_logged' = FALSE
  /\ outcomes' = << >>
  /\ returned' = NoCall
  /\ choices' = << >>
  /\ invalid_inputs' = 0
  /\ answered' = ""
  /\ pc' = "attempt"

\* Faulty variant of NextFile: the loop is left by return, not continued.
NextFile_return ==
  /\ pc' = "complete"
  /\ UNCHANGED << i, attempt, result, last_error, error_logged, outcomes,
                  returned, choices, invalid_inputs, answered >>

\* The end of the loop body: the next file, or the end of the run.
NextFile ==
  IF i < Len(image_files)
  THEN BeginFile(i + 1)
  ELSE /\ pc' = "complete"
       /\ UNCHANGED << i, attempt, result, last_error, error_logged, outcomes,
                       returned, choices, invalid_inputs, answered >>

\* The current file's processing ended in the way `how`.
Ends(how) ==
  fate' = Append(fate, [file |-> image_path, how |-> how, text |-> result.text])

\* Faulty variant of ClearedLog: the old log is kept.
ClearedLog_kept(log) == log

\* The error log after "if error_log_path.exists(): error_log_path.unlink()".
ClearedLog(log) == IF log.exists THEN NoLog ELSE log

\* process_images is called: the old log is removed, the queue is built, and
\* the first file is begun.
StartRun ==
  /\ pc \in {"not_started"} \cup Ended
  /\ clock < MaxRuns
  /\ clock' = clock + 1
  /\ unlinked' = error_log.exists
  /\ error_log' = ClearedLog(error_log)
  /\ image_files' = get_image_files(DOMAIN dir)
  /\ fate' = << >>
  /\ IF image_files' = << >>
     THEN /\ pc' = "no_images"
          /\ i' = 0
          /\ attempt' = 1
          /\ result' = None
          /\ last_error' = NoError
          /\ error_logged' = FALSE
          /\ outcomes' = << >>
          /\ returned' = NoCall
          /\ choices' = << >>
          /\ invalid_inputs' = 0
          /\ answered' = ""
     ELSE BeginFile(1)
  /\ UNCHANGED << mode, case_insensitive_fs, dir, filename, sanitized >>

\* Faulty variant of GatewayReturns: the for loop is not left by break, the
\* remaining attempts of the cycle are made as well.
GatewayReturns_no_break(content) ==
  /\ pc = "attempt"
  /\ result' = [some |-> TRUE,
                text |-> IF mode = "caption" THEN caption_image(content)
                         ELSE generate_filename(content)]
  /\ outcomes' = Append(outcomes, TRUE)
  /\ returned' = [ok |-> TRUE, error |-> << >>, text |-> result'.text]
  /\ IF attempt < max_retries
     THEN attempt' = attempt + 1 /\ pc' = "attempt"
     ELSE attempt' = attempt /\ pc' = "finalize"
  /\ UNCHANGED << mode, case_insensitive_fs, dir, error_log, clock, unlinked,
                  image_files, i, last_error, error_logged, choices, invalid_inputs,
                  answered, fate, filename, sanitized >>

\* A gateway call returns the response `content` of the service.
GatewayReturns(content) ==
  /\ pc = "attempt"
  /\ result' = [some |-> TRUE,
                text |-> IF mode = "caption" THEN caption_image(content)
                         ELSE generate_filename(content)]
  /\ outcomes' = Append(outcomes, TRUE)
  /\ returned' = [ok |-> TRUE, error |-> << >>, text |-> result'.text]
  /\ pc' = "finalize"
  /\ UNCHANGED << mode, case_insensitive_fs, dir, error_log, clock, unlinked,
                  image_files, i,
                  attempt, last_error, error_logged, choices, invalid_inputs,
                  answered, fate, filename, sanitized >>

\* Faulty variant of GatewayRaises: last_error keeps the first error of the file.
GatewayRaises_first_error(cause) ==
  /\ pc = "attempt"
  /\ last_error' = IF last_error = NoError THEN GatewayError(cause) ELSE last_error
  /\ outcomes' = Append(outcomes, FALSE)
  /\ returned' = [ok |-> FALSE, error |-> GatewayError(cause), text |-> << >>]
  /\ IF attempt < max_retries
     THEN attempt' = attempt + 1 /\ pc' = "attempt"
     ELSE attempt' = attempt /\ pc' = "prompt"
  /\ UNCHANGED << mode, case_insensitive_fs, dir, error_log, clock, unlinked,
                  image_files, i, result, error_logged, choices, invalid_inputs,
                  answered, fate, filename, sanitized >>

\* A gateway call raises: the next attempt of the cycle after the wait, or
\* the prompt after the last attempt.
GatewayRaises(cause) ==
  /\ pc = "attempt"
  /\ last_error' = GatewayError(cause)
  /\ outcomes' = Append(outcomes, FALSE)
  /\ returned' = [ok |-> FALSE, error |-> GatewayError(cause), text |-> << >>]
  /\ IF attempt < max_retries
     THEN attempt' = attempt + 1 /\ pc' = "attempt"
     ELSE attempt' = attempt /\ pc' = "prompt"
  /\ UNCHANGED << mode, case_insensitive_fs, dir, error_log, clock, unlinked,
                  image_files, i,
                  result, error_logged, choices, invalid_inputs, answered, fate,
                  filename, sanitized >>

\* Ctrl-C during a gateway call or during the wait before one: the
\* KeyboardInterrupt is not an Exception, nothing catches it, the run ends.
Interrupt ==
  /\ pc = "attempt"
  /\ pc' = "interrupted"
  /\ UNCHANGED << mode, case_insensitive_fs, dir, error_log, clock, unlinked,
                  image_files, i,
                  attempt, result, last_error, error_logged, outcomes, returned,
                  choices, invalid_inputs, answered, fate, filename, sanitized >>

\* Faulty variant of prompt_user_after_failures: whatever the operator
\* chooses, the file is tried again.
prompt_user_after_failures_always_retry(input) ==
  IF input \in {"1", "2", "3", "eof"} THEN "2" ELSE ""

\* Faulty variant of prompt_user_after_failures: end of input or Ctrl-C at the
\* prompt counts as choice 3.
prompt_user_after_failures_eof_skips(input) ==
  IF input \in {"1", "2", "3"} THEN input
  ELSE IF input = "eof" THEN "3"
  ELSE ""

\* What prompt_user_after_failures returns for an answer, "" when it asks again.
prompt_user_after_failures(input) ==
  IF input \in {"1", "2", "3"} THEN input
  ELSE IF input = "eof" THEN "1"
  ELSE ""

\* An invalid answer: the prompt asks again.
AskAgain ==
  /\ invalid_inputs < MaxInvalidInputs
  /\ invalid_inputs' = invalid_inputs + 1
  /\ UNCHANGED << error_log, pc, i, attempt, result, last_error, error_logged,
                  outcomes, choices, fate >>

\* Faulty variant of Abort: the retry loop is left by break, not by return.
Abort_break ==
  /\ error_log' = IF error_logged THEN error_log
                  ELSE log_error(error_log, clock, image_path, last_error)
  /\ choices' = Append(choices, "1")
  /\ error_logged' = TRUE
  /\ pc' = "finalize"
  /\ invalid_inputs' = 0
  /\ UNCHANGED << i, attempt, result, last_error, outcomes, fate >>

\* Choice 1: the last error is logged and process_images returns.
Abort ==
  /\ error_log' = IF error_logged THEN error_log
                  ELSE log_error(error_log, clock, image_path, last_error)
  /\ choices' = Append(choices, "1")
  /\ Ends("aborted")
  /\ pc' = "aborted"
  /\ UNCHANGED << i, attempt, result, last_error, error_logged, outcomes,
                  invalid_inputs >>

\* Choice 2: another cycle of attempts.
Retry ==
  /\ Len(SelectSeq(choices, LAMBDA c : c = "2")) < MaxRetryChoices
  /\ choices' = Append(choices, "2")
  /\ attempt' = 1
  /\ pc' = "attempt"
  /\ invalid_inputs' = 0
  /\ UNCHANGED << error_log, i, result, last_error, error_logged, outcomes, fate >>

\* Faulty variant of Skip: error_logged is not set.
Skip_unflagged ==
  /\ error_log' = log_error(error_log, clock, image_path, SkipMessage(last_error))
  /\ choices' = Append(choices, "3")
  /\ error_logged' = FALSE
  /\ result' = None
  /\ pc' = "finalize"
  /\ invalid_inputs' = 0
  /\ UNCHANGED << i, attempt, last_error, outcomes, fate >>

\* Choice 3: the skip is logged and the retry loop is left without a result.
Skip ==
  /\ error_log' = log_error(error_log, clock, image_path, SkipMessage(last_error))
  /\ choices' = Append(choices, "3")
  /\ error_logged' = TRUE
  /\ result' = None
  /\ pc' = "finalize"
  /\ invalid_inputs' = 0
  /\ UNCHANGED << i, attempt, last_error, outcomes, fate >>

\* The operator answers the prompt.
Prompt(input) ==
  /\ pc = "prompt"
  /\ LET user_choice == prompt_user_after_failures(input)
     IN  \/ user_choice = "" /\ AskAgain
         \/ user_choice = "1" /\ Abort
         \/ user_choice = "2" /\ Retry
         \/ user_choice = "3" /\ Skip
  /\ answered' = input
  /\ UNCHANGED << mode, case_insensitive_fs, dir, clock, image_files, returned,
                  unlinked, filename, sanitized >>

\* The causes of a failed rename.
RenameCauses == {"permission denied"}

\* After the retry loop without a result (the else branch): the error is
\* logged unless it was logged already, and the loop goes on.
FinalizeNoResult ==
  /\ pc = "finalize"
  /\ ~result.some
  /\ error_log' = IF ~error_logged /\ last_error # NoError
                  THEN log_error(error_log, clock, image_path, last_error)
                  ELSE error_log
  /\ Ends("skipped")
  /\ NextFile
  /\ UNCHANGED << mode, case_insensitive_fs, dir, clock, unlinked, image_files,
                  filename, sanitized >>

\* After the retry loop with a result, caption mode: the caption is written to
\* the .txt file next to the image.
FinalizeCaption ==
  /\ pc = "finalize"
  /\ result.some
  /\ mode = "caption"
  /\ dir' = WriteText(case_insensitive_fs, dir, TxtName(image_path), result.text)
  /\ Ends("captioned")
  /\ NextFile
  /\ UNCHANGED << mode, case_insensitive_fs, error_log, clock, unlinked, image_files,
                  filename, sanitized >>

\* After the retry loop with a result, name mode: the name is sanitized, an
\* unchanged name is skipped, a free name is searched and the file renamed.
\* The filesystem either performs the rename or fails it with some cause.
FinalizeName ==
  /\ pc = "finalize"
  /\ result.some
  /\ mode = "name"
  /\ \E sanitized_name \in {sanitize_filename(result.text)} :
     \E files \in {Files(dir, error_log)} :
     \E search \in {CollisionSearch(case_insensitive_fs, files, image_path,
                                    sanitized_name)} :
     \E new_path \in {sanitized_name \o Suffix(image_path)} :
         IF sanitized_name = << >>
         THEN /\ error_log' = log_error(error_log, clock, image_path, EmptyNameMessage)
              /\ dir' = dir
              /\ Ends("empty_name")
         ELSE IF Lower(new_path) = Lower(image_path)
         THEN /\ UNCHANGED << error_log, dir >>
              /\ Ends("unchanged")
         ELSE IF search.counter > max_attempts
         THEN /\ error_log' = log_error(error_log, clock, image_path,
                                        GiveUpMessage(Decimal(max_attempts)))
              /\ dir' = dir
              /\ Ends("collision_exhausted")
         ELSE \/ /\ dir' = Rename(case_insensitive_fs, dir, image_path, search.new_path)
                 /\ error_log' = error_log
                 /\ Ends("renamed")
              \/ \E cause \in RenameCauses :
                   /\ error_log' = log_error(error_log, clock, image_path,
                                             RenameFailedMessage(cause))
                   /\ dir' = dir
                   /\ Ends("rename_failed")
  /\ NextFile
  /\ UNCHANGED << mode, case_insensitive_fs, clock, unlinked, image_files,
                  filename, sanitized >>

Next ==
  \/ StartRun
  \/ \E content \in RawResponses : GatewayReturns(content)
  \/ \E cause \in Causes : GatewayRaises(cause)
  \/ Interrupt
  \/ \E input \in PromptInputs : Prompt(input)
  \/ FinalizeNoResult
  \/ FinalizeCaption
  \/ FinalizeName

Spec == Init /\ [][Next]_vars

(***************************************************************************)
(* Runs in which every gateway call returns or raises (no Ctrl-C outside   *)
(* the prompt), the operator answers every prompt, validly after at most   *)
(* MaxInvalidInputs answers, and chooses retry at most MaxRetryChoices     *)
(* times for a file.  The process is sequential and never waits for         *)
(* anything else: a step within a run that can be taken is taken.          *)
(***************************************************************************)

\* The steps within a run.
InRun ==
  \/ \E cause \in Causes : GatewayRaises(cause)
  \/ \E content \in RawResponses : GatewayReturns(content)
  \/ \E input \in PromptInputs : Prompt(input)
  \/ FinalizeNoResult
  \/ FinalizeCaption
  \/ FinalizeName

NextFair == StartRun \/ InRun

SpecFair == Init /\ [][NextFair]_vars /\ WF_vars(InRun)

(***************************************************************************)
(* sanitize_filename on its own: applied once, and again to its result.    *)
(***************************************************************************)

\* The longest tail of an input.
MaxTail == 3

\* The characters of the tails: a letter, and the characters the function
\* treats specially.
SanitizeChars == {"a", ".", " ", "-", "<"}

\* The inputs: a run of letters, none or about as long as the limit, followed
\* by any tail.
SanitizeInputs ==
  {[k \in 1..n |-> "a"] \o tail :
     n \in {0} \cup ((SanitizeLimit - 2)..(SanitizeLimit + 1)),
     tail \in UNION {[1..m -> SanitizeChars] : m \in 0..MaxTail}}

InitSanitize ==
  /\ mode = "name"
  /\ case_insensitive_fs = FALSE
  /\ dir = Directory({Notes})
  /\ error_log = NoLog
  /\ clock = 0
  /\ unlinked = FALSE
  /\ pc = "not_started"
  /\ image_files = << >>
  /\ i = 0
  /\ attempt = 1
  /\ result = None
  /\ last_error = NoError
  /\ error_logged = FALSE
  /\ outcomes = << >>
  /\ returned = NoCall
  /\ choices = << >>
  /\ invalid_inputs = 0
  /\ answered = ""
  /\ fate = << >>
  /\ filename \in SanitizeInputs
  /\ sanitized = << >>

\* sanitize_filename is applied to the input, then to its own result.
Sanitize ==
  /\ Len(sanitized) < 2
  /\ sanitized' = Append(sanitized,
                    sanitize_filename(IF sanitized = << >> THEN filename
                                      ELSE sanitized[Len(sanitized)]))
  /\ UNCHANGED << mode, case_insensitive_fs, dir, error_log, clock, unlinked, pc,
                  image_files, i, attempt, result, last_error, error_logged,
                  outcomes, returned, choices, invalid_inputs, answered, fate,
                  filename >>

NextSanitize == Sanitize

SpecSanitize == InitSanitize /\ [][NextSanitize]_vars

(***************************************************************************)
(* generate_filename on its own: the clean-up of a response text.          *)
(***************************************************************************)

\* The longest response text.
MaxRaw == 4

\* The characters of the response texts: a letter, a digit, and characters
\* the clean-up treats specially.
RawChars == {"a", "7", "_", "-", " ", "\"", "\n"}

RawInputs == UNION {[1..m -> RawChars] : m \in 0..MaxRaw}

\* The state in which only a pure function is applied to the text `filename`.
InitPure ==
  /\ mode = "name"
  /\ case_insensitive_fs = FALSE
  /\ dir = Directory({Notes})
  /\ error_log = NoLog
  /\ clock = 0
  /\ unlinked = FALSE
  /\ pc = "not_started"
  /\ image_files = << >>
  /\ i = 0
  /\ attempt = 1
  /\ result = None
  /\ last_error = NoError
  /\ error_logged = FALSE
  /\ outcomes = << >>
  /\ returned = NoCall
  /\ choices = << >>
  /\ invalid_inputs = 0
  /\ answered = ""
  /\ fate = << >>
  /\ sanitized = << >>

InitGenerate ==
  /\ InitPure
  /\ filename \in RawInputs

\* generate_filename gets the response text and returns the cleaned name.
Generate ==
  /\ ~result.some
  /\ result' = [some |-> TRUE, text |-> generate_filename(filename)]
  /\ UNCHANGED << mode, case_insensitive_fs, dir, error_log, clock, unlinked, pc,
                  image_files, i, attempt, last_error, error_logged, outcomes,
                  returned, choices, invalid_inputs, answered, fate, filename,
                  sanitized >>

NextGenerate == Generate

SpecGenerate == InitGenerate /\ [][NextGenerate]_vars

(***************************************************************************)
(* The classifier on its own: get_image_files on a directory of one file.  *)
(***************************************************************************)

\* The parts the file names are put together from: the word, the date, the
\* "at", the time, what follows the time, and the extension.
NameWords ==
  { << "S", "c", "r", "e", "e", "n", "s", "h", "o", "t" >>,
    << "S", "C", "R", "E", "E", "N", "S", "H", "O", "T" >>,
    << "s", "c", "r", "e", "e", "n", "s", "h", "o", "t" >>,
    << "S", "c", "r", "e", "e", "n", "s", "h", "a", "t" >>,
    << "S", "c", "r", "e", "e", "n" >> }

NameDates ==
  { << " ", "2", "0", "2", "5", "-", "1", "1", "-", "1", "6" >>,
    << " ", "2", "0", "2", "5", "-", "1", "-", "1", "6" >>,
    << " ", "2", "0", "2", "5", "/", "1", "1", "/", "1", "6" >>,
    << " ", "2", "0", "x", "5", "-", "1", "1", "-", "1", "6" >>,
    << "_", "2", "0", "2", "5", "-", "1", "1", "-", "1", "6" >> }

NameAts ==
  { << " ", "a", "t", " " >>,
    << " ", "A", "T", " " >>,
    << " ", "A", "t", " " >>,
    << " ", "o", "n", " " >>,
    << "a", "t" >> }

NameTimes ==
  { << "1", "8", ".", "2", "3", ".", "4", "7" >>,
    << "1", "8", ":", "2", "3", ":", "4", "7" >>,
    << "1", "8", ".", "2", "3", ".", "4" >>,
    << "1", "8", ".", "2", "3" >> }

NameRests ==
  { << >>,
    << " ", "(", "2", ")" >>,
    << "b" >> }

NameExtensions ==
  { << ".", "p", "n", "g" >>,
    << ".", "P", "N", "G" >>,
    << ".", "j", "p", "e", "g" >>,
    << ".", "t", "x", "t" >>,
    << >>,
    << ".", "t", "i", "f" >>,
    << ".", "p", "n" >> }

ClassifyInputs ==
  {w \o d \o a \o t \o r \o e :
     w \in NameWords, d \in NameDates, a \in NameAts, t \in NameTimes,
     r \in NameRests, e \in NameExtensions}

InitClassify ==
  /\ InitPure
  /\ filename \in ClassifyInputs

\* get_image_files lists a directory that holds the one file.
Classify ==
  /\ pc = "not_started"
  /\ image_files' = get_image_files({filename})
  /\ pc' = "classified"
  /\ UNCHANGED << mode, case_insensitive_fs, dir, error_log, clock, unlinked, i,
                  attempt, result, last_error, error_logged, outcomes, returned,
                  choices, invalid_inputs, answered, fate, filename, sanitized >>

NextClassify == Classify

SpecClassify == InitClassify /\ [][NextClassify]_vars

(***************************************************************************)
(* Properties.                                                             *)
(***************************************************************************)

\* The lines of the error log for the file f.
LinesFor(f) == SelectSeq(error_log.lines, LAMBDA line : line.file = f)

Last(seq) == seq[Len(seq)]

\* Every gateway call made for the current file raised.
GatewayAlwaysFailed == \A k \in 1..Len(outcomes) : ~outcomes[k]

\* The message is one the retry loop writes: a gateway error, or a skip.
ControllerMessage(message) ==
  message[1] \in {GatewayError("")[1], SkipMessage(NoError)[1]}

\* C1: while every gateway call for a file fails, the operator is first
\* prompted after exactly three calls, not earlier and with no fourth call
\* before; and once the operator has chosen skip, the log has exactly one line
\* for the file, the skip message with the error of the latest failed call,
\* also when retry cycles came before.
C1_ThreeCallsThenPromptThenOneSkipLine ==
  /\ (pc = "prompt" /\ choices = << >>) =>
       Len(outcomes) = 3 /\ GatewayAlwaysFailed
  /\ (pc = "attempt" /\ choices = << >> /\ GatewayAlwaysFailed) =>
       Len(outcomes) < 3 /\ attempt = Len(outcomes) + 1
  /\ (i >= 1 /\ choices # << >> /\ Last(choices) = "3" /\ GatewayAlwaysFailed) =>
       /\ Len(LinesFor(image_path)) = 1
       /\ ~returned.ok
       /\ LinesFor(image_path)[1].message = SkipMessage(returned.error)

\* A skip after a retry cycle: six failed calls, one line.
C1_Witness ==
  /\ pc = "finalize"
  /\ choices = << "2", "3" >>
  /\ Len(outcomes) = 6
  /\ GatewayAlwaysFailed
  /\ Len(LinesFor(image_path)) = 1

\* C2: when the gateway fails on attempts 1 and 2 and succeeds on attempt 3,
\* the retry loop ends with the text the third attempt returned, the operator
\* was never prompted for the file, and the retry loop wrote no log line for it.
C2_ThirdAttemptResolves ==
  outcomes = << FALSE, FALSE, TRUE >> =>
    /\ pc \in {"finalize", "complete"}
    /\ choices = << >>
    /\ invalid_inputs = 0
    /\ returned.ok
    /\ pc = "finalize" => result = [some |-> TRUE, text |-> returned.text]
    /\ \A k \in 1..Len(LinesFor(image_path)) :
         ~ControllerMessage(LinesFor(image_path)[k].message)

C2_Witness ==
  /\ outcomes = << FALSE, FALSE, TRUE >>
  /\ pc = "finalize"
  /\ result.some
  /\ last_error # NoError

\* What holds once the operator has chosen abort for the current file.
AbortedRun ==
  (i >= 1 /\ choices # << >> /\ Last(choices) = "1") =>
    /\ pc = "aborted"
    /\ Len(LinesFor(image_path)) = 1
    /\ ~returned.ok
    /\ LinesFor(image_path)[1].message = returned.error
    /\ Len(fate) = i
    /\ \A j \in (i + 1)..Len(image_files) :
         /\ LinesFor(image_files[j]) = << >>
         /\ image_files[j] \in DOMAIN dir
         /\ dir[image_files[j]] = Bytes(image_files[j])
         /\ clock = 1 =>
              ~\E n \in DOMAIN dir :
                 SamePath(case_insensitive_fs, n, TxtName(image_files[j]))
    /\ (i = 1 /\ Len(image_files) = 2) => Len(error_log.lines) = 1

\* C3: when the operator chooses abort for file k, the last error of file k is
\* in the log exactly once and the run has halted: the files after k have no
\* log line, no caption file and their own name and bytes, and nothing more
\* happens in this run (the only step is the start of another run); with two
\* files queued and abort on the first, the log holds exactly one line.
C3_AbortHaltsRun ==
  /\ []AbortedRun
  /\ [][pc = "aborted" => clock' = clock + 1 /\ fate' = << >>]_vars

C3_Witness ==
  /\ pc = "aborted"
  /\ i = 1
  /\ Len(image_files) = 2
  /\ Len(error_log.lines) = 1
  /\ error_log.lines[1].file = image_files[1]

\* The ways a file ends that are logged, and those that are not.
LoggedEnds == {"skipped", "aborted", "collision_exhausted", "rename_failed"}

SilentEnds == {"renamed", "captioned", "unchanged"}

\* C4: the log never has more than one line for a file; once a file's
\* processing has ended the log has exactly one line for it when it was
\* skipped, aborted, ran out of candidates or failed to rename, and none when
\* it was captioned, renamed or left unchanged.
C4_OneLinePerFailedFile ==
  /\ \A k \in 1..Len(image_files) : Len(LinesFor(image_files[k])) <= 1
  /\ \A k \in 1..Len(error_log.lines) :
       \E j \in 1..Len(image_files) : image_files[j] = error_log.lines[k].file
  /\ \A k \in 1..Len(fate) :
       /\ fate[k].how \in LoggedEnds => Len(LinesFor(fate[k].file)) = 1
       /\ fate[k].how \in SilentEnds => Len(LinesFor(fate[k].file)) = 0

C4_Witness ==
  /\ Len(fate) = 2
  /\ fate[1].how = "rename_failed"
  /\ fate[2].how = "skipped"
  /\ Len(error_log.lines) = 2

\* C5: in name mode no step loses or changes a file of the directory other
\* than by renaming the current image, and the name the image gets was not in
\* the directory, not even up to letter case.
C5_RenameNeverOverwrites ==
  [][(mode = "name" /\ dir' # dir) =>
       /\ DOMAIN dir \ DOMAIN dir' = {image_path}
       /\ Cardinality(DOMAIN dir' \ DOMAIN dir) = 1
       /\ \A n \in DOMAIN dir \cap DOMAIN dir' : dir'[n] = dir[n]
       /\ \A dst \in DOMAIN dir' \ DOMAIN dir :
            /\ dir'[dst] = dir[image_path]
            /\ Lower(dst) \notin LowerNames(Files(dir, error_log))]_vars

\* Both screenshots were renamed in a directory that has photo.png and
\* photo-1.png, the first to Photo-2.png, and all five files are there.
C5_Witness ==
  /\ pc = "complete"
  /\ Len(fate) = 2
  /\ fate[1].how = "renamed"
  /\ fate[2].how = "renamed"
  /\ Taken(2) \subseteq DOMAIN dir
  /\ Cardinality(DOMAIN dir) = 5
  /\ \E n \in DOMAIN dir :
       /\ dir[n] = Bytes(ShotA)
       /\ n = Candidate(<< "P", "h", "o", "t", "o" >>, << ".", "p", "n", "g" >>, 2)
  /\ \E n \in DOMAIN dir : dir[n] = Bytes(ShotB)

\* C6: the file is renamed to the first candidate without conflict: when
\* base.ext, base-1.ext, .., base-(k-1).ext exist as other files and base-k.ext
\* does not exist, exactly or up to letter case, the image becomes base-k.ext
\* (unless the filesystem fails the rename).
C6_FirstFreeCandidate ==
  [][(pc = "finalize" /\ result.some /\ mode = "name") =>
       LET sanitized_name == sanitize_filename(result.text)
           files   == Files(dir, error_log)
           lowered == LowerNames(files)
           Cand(k) == Candidate(sanitized_name, Suffix(image_path), k)
           Other(k) == Cand(k) \in files /\ Cand(k) # image_path
           first   == CHOOSE k \in 0..(max_attempts + 1) :
                        /\ k = max_attempts + 1 \/ ~Other(k)
                        /\ \A j \in 0..(k - 1) : Other(j)
       IN  (/\ sanitized_name # << >>
            /\ Lower(Cand(0)) # Lower(image_path)
            /\ ~Exists(case_insensitive_fs, files, lowered, Cand(first))
            /\ Lower(Cand(first)) \notin lowered
            /\ Last(fate').how # "rename_failed")
           => /\ Last(fate').how = "renamed"
              /\ Cand(first) \in DOMAIN dir'
              /\ dir'[Cand(first)] = dir[image_path]]_vars

\* The same for the candidates the search tests, the unnumbered one and the
\* numbered ones below max_attempts.
C6_FirstFreeAmongProbed ==
  [][(pc = "finalize" /\ result.some /\ mode = "name") =>
       LET sanitized_name == sanitize_filename(result.text)
           files   == Files(dir, error_log)
           lowered == LowerNames(files)
           Cand(k) == Candidate(sanitized_name, Suffix(image_path), k)
           Other(k) == Cand(k) \in files /\ Cand(k) # image_path
           first   == CHOOSE k \in 0..max_attempts :
                        /\ k = max_attempts \/ ~Other(k)
                        /\ \A j \in 0..(k - 1) : Other(j)
       IN  (/\ sanitized_name # << >>
            /\ Lower(Cand(0)) # Lower(image_path)
            /\ first < max_attempts
            /\ ~Exists(case_insensitive_fs, files, lowered, Cand(first))
            /\ Lower(Cand(first)) \notin lowered
            /\ Last(fate').how # "rename_failed")
           => /\ Last(fate').how = "renamed"
              /\ Cand(first) \in DOMAIN dir'
              /\ dir'[Cand(first)] = dir[image_path]]_vars

\* C7: the search gives up only when the unnumbered candidate and every one of
\* the numbered variants base-1.ext .. base-1000.ext is in conflict.
C7_GiveUpOnlyAfterAllVariants ==
  [][(/\ pc = "finalize" /\ result.some /\ mode = "name"
      /\ Last(fate').how = "collision_exhausted") =>
       LET sanitized_name == sanitize_filename(result.text)
           files   == Files(dir, error_log)
           lowered == LowerNames(files)
           Cand(k) == Candidate(sanitized_name, Suffix(image_path), k)
       IN  \A k \in 0..max_attempts :
             Conflict(case_insensitive_fs, files, lowered, image_path, Cand(k))]_vars

\* The search gives up exactly when the candidates it tests, the unnumbered one
\* and base-1.ext .. base-999.ext, are all in conflict.
C7_GiveUpAfterProbedVariants ==
  [][(pc = "finalize" /\ result.some /\ mode = "name") =>
       LET sanitized_name == sanitize_filename(result.text)
           files   == Files(dir, error_log)
           lowered == LowerNames(files)
           Cand(k) == Candidate(sanitized_name, Suffix(image_path), k)
       IN  (Last(fate').how = "collision_exhausted")
             <=> \A k \in 0..(max_attempts - 1) :
                   Conflict(case_insensitive_fs, files, lowered, image_path, Cand(k))]_vars

\* C8 speaks of a desired name equal, up to letter case, to the current name.
\* No run gets there: a name from generate_filename has no space, and the
\* stem of every queued file has the spaces of the screenshot pattern.
C8_UnchangedNameNeverArises ==
  /\ \A k \in 1..Len(fate) : fate[k].how \notin {"unchanged", "empty_name"}
  /\ (pc = "finalize" /\ result.some /\ mode = "name") =>
       Lower(sanitize_filename(result.text) \o Suffix(image_path)) # Lower(image_path)

\* C9: sanitize_filename is idempotent: applying it to its own result changes
\* nothing, for every input.
SanitizeIdempotent ==
  Len(sanitized) = 2 => sanitized[2] = sanitized[1]

\* sanitize_filename is idempotent on the inputs it does not truncate.
SanitizeIdempotentUntruncated ==
  /\ Len(sanitized) = 2
  /\ Len(filename) <= SanitizeLimit
  => sanitized[2] = sanitized[1]

\* C10: the log holds only lines of the current run, whatever the run before
\* logged and however it ended; the file exists only when this run logged.
C10_LogHoldsOnlyThisRun ==
  /\ \A k \in 1..Len(error_log.lines) :
       /\ error_log.lines[k].timestamp = clock
       /\ \E j \in 1..i : image_files[j] = error_log.lines[k].file
  /\ error_log.exists <=> error_log.lines # << >>

\* A second run that removed the log of the first and logged a line itself.
C10_Witness ==
  /\ clock = 2
  /\ unlinked
  /\ pc \in Ended
  /\ Len(error_log.lines) = 1

\* C11: in caption mode, once the batch is complete, every image that was
\* captioned has the .txt file of its stem next to it, and that file holds the
\* text the gateway returned for that image.
C11_EveryResolvedImageHasItsCaption ==
  (mode = "caption" /\ pc = "complete") =>
    \A k \in 1..Len(fate) :
      fate[k].how = "captioned" =>
        \E n \in DOMAIN dir :
          /\ SamePath(case_insensitive_fs, n, TxtName(fate[k].file))
          /\ dir[n] = fate[k].text

\* The same for the images whose stem no other queued image has.
C11_CaptionPerDistinctStem ==
  (mode = "caption" /\ pc = "complete") =>
    \A k \in 1..Len(fate) :
      (/\ fate[k].how = "captioned"
       /\ \A j \in 1..Len(image_files) :
            j # k => ~SamePath(case_insensitive_fs, TxtName(image_files[j]),
                              TxtName(fate[k].file)))
      => \E n \in DOMAIN dir :
           /\ SamePath(case_insensitive_fs, n, TxtName(fate[k].file))
           /\ dir[n] = fate[k].text

\* The name is one get_image_files queues.
Eligible(n) ==
  /\ Lower(Suffix(n)) \in image_extensions
  /\ is_macos_screenshot_filename(Stem(n))

\* The file n is a caption file this run has written.
WrittenThisRun(n) ==
  \E k \in 1..Len(fate) :
    /\ fate[k].how = "captioned"
    /\ SamePath(case_insensitive_fs, n, TxtName(fate[k].file))

\* The file n is at the path of the caption file of a queued image.
CaptionPath(n) ==
  \E j \in 1..Len(image_files) :
    SamePath(case_insensitive_fs, n, TxtName(image_files[j]))

\* C12: the only files of the directory a step of a run loses, renames or
\* gives other content are eligible images and files the run wrote itself: a
\* file that was there before and is not an eligible image is never touched, in
\* caption mode and in name mode.  (The error log, which a
\* run removes when it starts, is left aside.)
C12_OnlyEligibleFilesTouched ==
  [][dir' # dir =>
       \A n \in DOMAIN dir :
         (n \notin DOMAIN dir' \/ dir'[n] # dir[n]) =>
           (Eligible(n) \/ WrittenThisRun(n))]_vars

\* C12 as amended: the only files of the directory a step of a run loses,
\* renames or gives other content are eligible images and, in caption mode, the
\* file at the path of a queued image's caption, which gets the new caption; the
\* error log is removed only by the start of a run.
C12_OnlyEligibleFilesAndTheirCaptionsTouched ==
  /\ [][dir' # dir =>
          \A n \in DOMAIN dir :
            (n \notin DOMAIN dir' \/ dir'[n] # dir[n]) =>
              (Eligible(n) \/ (mode = "caption" /\ CaptionPath(n)))]_vars
  /\ [][(error_log.exists /\ ~error_log'.exists) => clock' = clock + 1]_vars

\* A second caption run is complete: it replaced both captions of the first,
\* and notes.txt is as it was.
C12_Witness ==
  /\ mode = "caption"
  /\ clock = 2
  /\ pc = "complete"
  /\ Len(fate) = 2
  /\ \A k \in 1..2 : fate[k].how = "captioned" /\ TxtName(fate[k].file) \in DOMAIN dir
  /\ Notes \in DOMAIN dir
  /\ dir[Notes] = Bytes(Notes)

\* A letter or a digit.
IsAlnum(c) == IsWord(c) /\ c # "_"

\* The text has no hyphen at either end and no two hyphens in a row.
HyphensSingleAndInside(t) ==
  /\ t[1] # "-"
  /\ t[Len(t)] # "-"
  /\ \A k \in 1..(Len(t) - 1) : ~(t[k] = "-" /\ t[k + 1] = "-")

\* C13: for every response text the name generate_filename returns is not
\* empty, each of its characters is a letter, a digit or a hyphen, it neither
\* starts nor ends with a hyphen and has no two hyphens in a row.
C13_NameAlphanumericOrHyphen ==
  result.some =>
    /\ result.text # << >>
    /\ \A k \in 1..Len(result.text) : IsAlnum(result.text[k]) \/ result.text[k] = "-"
    /\ HyphensSingleAndInside(result.text)

\* The same with the underscore allowed among the characters.
C13_NameWordCharOrHyphen ==
  result.some =>
    /\ result.text # << >>
    /\ \A k \in 1..Len(result.text) : IsWord(result.text[k]) \/ result.text[k] = "-"
    /\ HyphensSingleAndInside(result.text)
    /\ (\A k \in 1..Len(filename) : ~IsWord(filename[k])) =>
         result.text = << "u", "n", "t", "i", "t", "l", "e", "d" >>

\* The characters of the stem at positions lo .. hi are digits.
Digits(stem, lo, hi) == \A k \in lo..hi : IsDigit(stem[k])

\* The stem starts with the word "screenshot" in any letter case, a space, a
\* date dddd-dd-dd, the text `at` between two spaces, and a time dd.dd.dd.
StartsAsScreenshot(stem, at) ==
  /\ Len(stem) >= 33
  /\ Lower(SubSeq(stem, 1, 10)) = << "s", "c", "r", "e", "e", "n", "s", "h", "o", "t" >>
  /\ stem[11] = " "
  /\ Digits(stem, 12, 15) /\ stem[16] = "-"
  /\ Digits(stem, 17, 18) /\ stem[19] = "-"
  /\ Digits(stem, 20, 21)
  /\ stem[22] = " " /\ SubSeq(stem, 23, 24) \in at /\ stem[25] = " "
  /\ Digits(stem, 26, 27) /\ stem[28] = "."
  /\ Digits(stem, 29, 30) /\ stem[31] = "."
  /\ Digits(stem, 32, 33)

\* C14: a file is queued exactly when its extension, in any letter case, is
\* one of the image extensions and its stem starts with "Screenshot" in any
\* letter case, a space, a date dddd-dd-dd, the literal " at " and a time
\* dd.dd.dd, whatever follows the time.
C14_AcceptsExactlyScreenshotNames ==
  pc = "classified" =>
    (image_files # << >> <=>
       /\ Lower(Suffix(filename)) \in image_extensions
       /\ StartsAsScreenshot(Stem(filename), {<< "a", "t" >>}))

\* The same with the "at" in any letter case.
C14_AcceptsScreenshotNamesAnyCaseAt ==
  pc = "classified" =>
    (image_files # << >> <=>
       /\ Lower(Suffix(filename)) \in image_extensions
       /\ StartsAsScreenshot(Stem(filename),
              {<< "a", "t" >>, << "A", "T" >>, << "A", "t" >>, << "a", "T" >>}))

\* How many times the operator chose retry for the current file.
Retries == Len(SelectSeq(choices, LAMBDA c : c = "2"))

\* C15: for the current file, a cycle has at most three gateway calls and a
\* further cycle needs a retry choice, so the calls number at most
\* 3 * (1 + retry choices); every choice of the operator was made at a prompt
\* that followed three failed calls of its cycle, and the prompt is entered
\* only by the third failed call of a cycle; a call that returned is the last
\* call for the file.
C15_ThreeCallsPerCycle ==
  /\ [](/\ Len(outcomes) <= 3 * (1 + Retries)
        /\ Len(choices) <= Retries + 1
        /\ Len(outcomes) >= 3 * Len(choices)
        /\ \A k \in 1..Len(outcomes) : outcomes[k] => k = Len(outcomes)
        /\ pc = "prompt" =>
             Len(outcomes) = 3 * (1 + Retries) /\ GatewayAlwaysFailed
        /\ pc = "attempt" =>
             /\ attempt \in 1..3
             /\ Len(outcomes) = 3 * Retries + attempt - 1
             /\ Len(choices) = Retries)
  /\ [][(pc # "prompt" /\ pc' = "prompt") =>
          /\ pc = "attempt" /\ attempt = 3
          /\ outcomes' = Append(outcomes, FALSE)]_vars
  /\ [][(outcomes' # outcomes /\ outcomes' # << >>) =>
          (pc = "attempt" /\ GatewayAlwaysFailed)]_vars

\* After a retry choice the sixth call for the file returned.
C15_Witness ==
  /\ pc = "finalize"
  /\ choices = << "2" >>
  /\ outcomes = << FALSE, FALSE, FALSE, FALSE, FALSE, TRUE >>
  /\ result.some

\* What the prompt leaves as it is when it asks again.
ControllerState ==
  << dir, error_log, image_files, i, attempt, result, last_error, error_logged,
     outcomes, returned, choices, fate >>

\* C16: at the prompt an answer other than 1, 2, 3 (and other than end of
\* input or Ctrl-C) only makes the prompt ask again: no gateway call, no log
\* line, the state of the controller as it was; the prompt returns only 1, 2
\* or 3; end of input or Ctrl-C does what the answer 1 does: one log line for
\* the current file with its last error, and the run halts.
C16_InvalidAsksAgainInterruptAborts ==
  /\ [](\A k \in 1..Len(choices) : choices[k] \in {"1", "2", "3"})
  /\ [][(pc = "prompt" /\ answered' \notin {"1", "2", "3", "eof"}) =>
          /\ pc' = "prompt"
          /\ ControllerState' = ControllerState]_vars
  /\ [][(pc = "prompt" /\ answered' \in {"1", "eof"}) =>
          /\ pc' = "aborted"
          /\ choices' = Append(choices, "1")
          /\ error_log' = log_error(error_log, clock, image_path, returned.error)
          /\ Len(SelectSeq(error_log'.lines, LAMBDA line : line.file = image_path)) = 1
          /\ fate' = Append(fate, [file |-> image_path, how |-> "aborted",
                                   text |-> << >>])
          /\ dir' = dir /\ i' = i /\ outcomes' = outcomes]_vars

\* End of input at the prompt, after an invalid answer, has halted the run.
C16_Witness ==
  /\ pc = "aborted"
  /\ answered = "eof"
  /\ invalid_inputs = 1
  /\ Last(choices) = "1"
  /\ Len(LinesFor(image_path)) = 1
  /\ i < Len(image_files)

\* The positions within the processing of a file.
Running == {"attempt", "prompt", "finalize"}

\* The queue is in ascending order, so no file is in it twice.
QueueSorted ==
  \A j, k \in 1..Len(image_files) : j < k => StrLess(image_files[j], image_files[k])

C18_OnlyThePromptStopsARun ==
  (pc \in Ended /\ Len(fate) < Len(image_files)) =>
    /\ pc = "aborted"
    /\ choices # << >> /\ Last(choices) = "1"
    /\ Last(fate) = [file |-> image_path, how |-> "aborted", text |-> << >>]
    /\ Len(LinesFor(image_path)) = 1

\* A run that was not interrupted outside the prompt stops early only by the
\* operator's choice at the prompt.
C18_OnlyThePromptStopsAnUninterruptedRun ==
  (pc \in Ended \ {"interrupted"} /\ Len(fate) < Len(image_files)) =>
    /\ pc = "aborted"
    /\ choices # << >> /\ Last(choices) = "1"
    /\ Last(fate) = [file |-> image_path, how |-> "aborted", text |-> << >>]
    /\ Len(LinesFor(image_path)) = 1

FailedFinalizations == {"collision_exhausted", "rename_failed"}

====
